---- MODULE Spec2Model ----
(***************************************************************************)
(* Model of DFENSE_DataFilteringSmoothing.py: the SVD denoiser denoise_svd *)
(* (Hankel embedding, SVD, rank selection by the Gavish-Donoho threshold,  *)
(* truncation, reconstruction, diagonal averaging) and the Marcenko-Pastur *)
(* median solver it calls.                                                 *)
(*                                                                         *)
(* Real numbers are fixed-point integers: a real v is held as the integer  *)
(* v * SC.  The input series hold integers (unscaled); singular values,    *)
(* matrices derived from the SVD, thresholds and outputs are scaled.       *)
(***************************************************************************)
EXTENDS Integers, Sequences, FiniteSets

VARIABLES
    call,        \* entry point of this run: "denoise" or "median"
    pc,          \* position in the code of the call
    err,         \* "" or the kind of the error raised
    work,        \* the numerical steps executed so far in this call
    x,           \* the input series (line 50)
    w,           \* window length
    rGiven,      \* TRUE iff the caller supplied r (r is not None)
    r,           \* the rank: supplied, or selected at line 67
    H,           \* Hankel matrix (line 57), a sequence of rows
    S,           \* singular values (line 60), descending, scaled
    triad,       \* triad[i] = S[i] * U[:,i] * Vt[i,:], scaled
    beta,        \* aspect ratio (line 65), scaled
    coef,        \* optimal_svht_coef_sigma_known(beta) (line 111), scaled
    topSpec,     \* upper end of the support (line 120), scaled
    botSpec,     \* lower end of the support (line 121), scaled
    lobnd,       \* lower bound of the bisection (line 125), scaled
    hibnd,       \* upper bound of the bisection (line 126), scaled
    change,      \* loop flag of the bisection (line 127)
    iter,        \* number of iterations of the while loop of line 128 so far
    med,         \* result of median_marcenko_pastur (line 138), scaled
    omega,       \* optimal_svht_coef_sigma_unknown(beta) (line 113), scaled
    thresh,      \* threshold on the singular values (line 66), scaled
    threshNaN,   \* TRUE iff thresh is NaN (the median of no values)
    S_r,         \* truncated singular values (line 73), scaled
    H_denoised,  \* reconstructed matrix (line 76), scaled
    x_denoised,  \* the output series (line 86), scaled
    outNaN,      \* TRUE iff the output entries are NaN (0/0 at line 86)
    count,       \* per-index counters of the diagonal averaging (line 80)
    rankUsed,    \* second component of the returned pair (line 87)
    raw_data,         \* data_cleaning: the caller's frame (aggregation, line 39)
    positive_fields,  \* data_cleaning: names of the fields that must be positive
    forbidden_values, \* data_cleaning: the list of forbidden ranges
    df,               \* data_cleaning: the frame being cleaned (line 57)
    ccol,             \* data_cleaning: position of the loop of line 59
    cleaned,          \* data_cleaning: the returned frame (line 79)
    FrameLen,         \* main: frame length of the Savitzky-Golay filter (line 257)
    Order,            \* main: polynomial order of the filter (line 256)
    csv,              \* main: the aggregated data read at lines 274-280, per state
    uf,               \* main: position of the loop of line 269
    data,             \* main: the array of the state, a sequence of columns
    col,              \* main: position of the loops of lines 284 and 293
    interp_vals,      \* main: the spline evaluated on the finer grid (line 295)
    cwd_files,        \* main: files written to the working directory
    dir_files,        \* main: files moved to DataProcessed and Figures
    log               \* main: lines printed about the states

\* the locals of denoise_svd and of the functions it calls
denoiseVars == <<work, x, w, rGiven, r, H, S, triad, beta, coef, topSpec, botSpec,
                 lobnd, hibnd, change, iter, med, omega, thresh, threshNaN, S_r,
                 H_denoised, x_denoised, outNaN, count, rankUsed>>

\* the locals of data_cleaning
cleanVars == <<raw_data, positive_fields, forbidden_values, df, ccol, cleaned>>

\* the locals of main and the files it writes
mainVars == <<FrameLen, Order, csv, uf, data, col, interp_vals, cwd_files,
              dir_files, log>>

vars == <<call, pc, err, work, x, w, rGiven, r, H, S, triad, beta, coef,
          topSpec, botSpec,
          lobnd, hibnd, change, iter, med, omega, thresh, threshNaN, S_r,
          H_denoised, x_denoised, outNaN, count, rankUsed, cleanVars, mainVars>>

(***************************************************************************)
(* Bounds of the model.                                                    *)
(***************************************************************************)
MaxLen == 6        \* longest series of the enumerated families
MaxConst == 2      \* largest value of a constant series
MaxIters == 20     \* cap on the iteration counter of the bisection loop
QuadCells == 12    \* cells of the quadrature rule standing for integrate.quad
BetaSteps == 8     \* aspect ratios of direct calls are i / BetaSteps

(***************************************************************************)
(* Fixed-point arithmetic.                                                 *)
(***************************************************************************)
Digits == 4
SC == 10000

Abs(a) == IF a < 0 THEN -a ELSE a
Min(a, b) == IF a < b THEN a ELSE b
Max(a, b) == IF a > b THEN a ELSE b

RECURSIVE DivQR(_, _, _)
\* <<floor(a * 10^d / c), remainder>> by long division, for a >= 0, c > 0
DivQR(a, c, d) ==
    IF d = 0 THEN <<a \div c, a % c>>
    ELSE LET p == DivQR(a, c, d - 1)
         IN  <<p[1] * 10 + (p[2] * 10) \div c, (p[2] * 10) % c>>

\* a / c as a scaled real, for integers or equally scaled reals a, c (c > 0)
Quot(a, c) == IF a < 0 THEN -(DivQR(-a, c, Digits)[1]) ELSE DivQR(a, c, Digits)[1]

\* product of a scaled real b and a (scaled or unscaled) a, without overflow
Prod(a, b) == a * (b \div SC) + (a * (b % SC)) \div SC

RECURSIVE Newton(_, _)
Newton(n, y) ==
    LET z == (y + n \div y) \div 2
    IN  IF z >= y THEN y ELSE Newton(n, z)

\* floor of the square root of the integer n >= 0
ISqrt(n) == IF n < 2 THEN n ELSE Newton(n, Min(n, 46340))

RECURSIVE NewtonSc(_, _)
NewtonSc(v, y) ==
    LET z == (y + DivQR(v, y, Digits)[1]) \div 2
    IN  IF z >= y THEN y ELSE NewtonSc(v, z)

\* np.sqrt of the scaled real v >= 0, scaled
Sqrt(v) == IF v = 0 THEN 0 ELSE NewtonSc(v, v + SC)

RECURSIVE SumRange(_, _, _)
\* f[a] + ... + f[b], by halves
SumRange(f, a, b) ==
    IF a > b THEN 0
    ELSE IF a = b THEN f[a]
    ELSE SumRange(f, a, (a + b) \div 2) + SumRange(f, (a + b) \div 2 + 1, b)

\* f[1] + ... + f[n]
SumTo(f, n) == SumRange(f, 1, n)

(***************************************************************************)
(* Threshold coefficient and Marcenko-Pastur median (lines 105-156).       *)
(***************************************************************************)
TwoPiMilli == 6283
GridPoints == 5
TolMilli == 1

\* the factor 2 applied to beta alone
optimal_svht_coef_sigma_known_slip(b) ==
    LET root == Sqrt(Prod(b, b) + 14 * b + SC)
        w_val == Quot(8 * b, b + SC + root)
    IN  Sqrt(2 * b + SC + w_val)

\* line 106-108
optimal_svht_coef_sigma_known(b) ==
    LET root == Sqrt(Prod(b, b) + 14 * b + SC)
        w_val == Quot(8 * b, b + SC + root)
    IN  Sqrt(2 * (b + SC) + w_val)

\* lines 120-121 (and 147-148, where inc_mar_pas computes them again)
TopSpec(b) == Prod(SC + Sqrt(b), SC + Sqrt(b))
BotSpec(b) == Prod(SC - Sqrt(b), SC - Sqrt(b))

\* the integrand f of inc_mar_pas with gamma = 0 (lines 149-154)
MarPasDensity(t, b, top, bot) ==
    LET v == (top - t) * (t - bot)
        bx == b * t
        d == ((bx \div SC) * TwoPiMilli + ((bx % SC) * TwoPiMilli) \div SC) \div 1000
    IN  IF v > 0 /\ d > 0 THEN (ISqrt(v) * SC) \div d ELSE 0

\* integrate.quad(f, x0, topSpec) (line 155): midpoint rule on QuadCells cells
inc_mar_pas(x0, b, top, bot) ==
    LET wd == top - x0
        val == [i \in 1..QuadCells |->
                   MarPasDensity(x0 + (wd * (2 * i - 1)) \div (2 * QuadCells), b, top, bot)]
        tot == SumTo(val, QuadCells)
    IN  ((tot \div QuadCells) * wd + ((tot % QuadCells) * wd) \div QuadCells) \div SC

\* line 123-124
marpas(xv, b, top, bot) == SC - inc_mar_pas(xv, b, top, bot)

\* np.linspace(lobnd, hibnd, 5) (line 130)
x_vals(lo, hi) == [i \in 1..GridPoints |-> lo + ((hi - lo) * (i - 1)) \div (GridPoints - 1)]

SeqMax(s, idx) == CHOOSE v \in {s[i] : i \in idx} : \A i \in idx : s[i] <= v
SeqMin(s, idx) == CHOOSE v \in {s[i] : i \in idx} : \A i \in idx : s[i] >= v

\* the tolerance left out of the loop condition
LoopCond_no_tolerance == change

\* the loop condition of line 128
LoopCond == change /\ hibnd - lobnd > (TolMilli * SC) \div 1000

(***************************************************************************)
(* Matrices are sequences of rows.                                         *)
(***************************************************************************)
Rows(M) == Len(M)
Cols(M) == IF Len(M) = 0 THEN 0 ELSE Len(M[1])
Zero(m, n) == [i \in 1..m |-> [j \in 1..n |-> 0]]
MatAdd(A, B) == [i \in 1..Rows(A) |-> [j \in 1..Cols(A) |-> A[i][j] + B[i][j]]]

\* np.lib.stride_tricks.sliding_window_view(x, window_shape=w) (line 57),
\* for 0 <= wl <= Len(xs): row i is the slice of xs starting at i
Hankel(xs, wl) == [i \in 1..(Len(xs) - wl + 1) |-> [j \in 1..wl |-> xs[i + j - 1]]]

(***************************************************************************)
(* np.linalg.svd(H, full_matrices=False) (line 60), for matrices of rank   *)
(* at most 2.  The squared singular values are the eigenvalues of the Gram *)
(* matrix G = H^T H: lam1 + lam2 = tr G and lam1 * lam2 = (tr(G)^2 -       *)
(* tr(G^2)) / 2.  The first triad is H P1 with P1 the projector on the     *)
(* first right singular vector, P1 = (G - lam2 I) G / ((lam1 - lam2) lam1);*)
(* the triads sum to H.                                                    *)
(***************************************************************************)
Gram(M) == [i \in 1..Cols(M) |-> [j \in 1..Cols(M) |->
               SumTo([q \in 1..Rows(M) |-> M[q][i] * M[q][j]], Rows(M))]]
Trace(G) == SumTo([i \in 1..Len(G) |-> G[i][i]], Len(G))
TraceSq(G) == SumTo([i \in 1..Len(G) |->
                  SumTo([j \in 1..Len(G) |-> G[i][j] * G[i][j]], Len(G))], Len(G))

RECURSIVE NewtonInt(_, _)
NewtonInt(a, y) ==
    LET z == (y + DivQR(a, y, 2 * Digits)[1]) \div 2
    IN  IF z >= y THEN y ELSE NewtonInt(a, z)

\* the square root of the integer a >= 0, scaled
SqrtInt(a) == IF a = 0 THEN 0 ELSE NewtonInt(a, (ISqrt(a) + 1) * SC)

\* the two largest eigenvalues of G, scaled: <<lam1, lam2>>
Eigen(T, E2) ==
    IF E2 = 0 THEN <<T * SC, 0>>
    ELSE LET lam1 == (T * SC + SqrtInt(T * T - 4 * E2)) \div 2
         IN  <<lam1, DivQR(E2, lam1, 2 * Digits)[1]>>

\* the projector on the first right singular vector, scaled (lam1 > lam2)
Projector(G, lam1, lam2) ==
    LET n == Len(G)
        A == [i \in 1..n |-> [j \in 1..n |->
                 Quot(G[i][j] * SC - (IF i = j THEN lam2 ELSE 0), lam1 - lam2)]]
        B == [i \in 1..n |-> [j \in 1..n |-> Quot(G[i][j] * SC, lam1)]]
    IN  [i \in 1..n |-> [j \in 1..n |->
            SumTo([q \in 1..n |-> A[i][q] * B[q][j]], n) \div SC]]

ScaleUp(M) == [i \in 1..Rows(M) |-> [j \in 1..Cols(M) |-> M[i][j] * SC]]

svd(M) ==
    LET m == Rows(M)
        n == Cols(M)
        k == Min(m, n)
        G == Gram(M)
        T == Trace(G)
        E2 == (T * T - TraceSq(G)) \div 2
        lam == Eigen(T, E2)
        P1 == Projector(G, lam[1], lam[2])
        M1 == IF E2 = 0 THEN ScaleUp(M)
              ELSE [i \in 1..m |-> [j \in 1..n |->
                       SumTo([q \in 1..n |-> M[i][q] * P1[q][j]], n)]]
        M2 == [i \in 1..m |-> [j \in 1..n |-> M[i][j] * SC - M1[i][j]]]
    IN  [S |-> [i \in 1..k |-> IF i = 1 THEN Sqrt(lam[1])
                               ELSE IF i = 2 THEN Sqrt(lam[2]) ELSE 0],
         triad |-> [i \in 1..k |-> IF i = 1 THEN M1
                                   ELSE IF i = 2 THEN M2 ELSE Zero(m, n)]]

(***************************************************************************)
(* np.median(S) (line 66): S is sorted, so the median is its middle value, *)
(* or the mean of its two middle values; of no values it is NaN.           *)
(***************************************************************************)
\* the largest value taken for the median
Median_max(s) == s[1]

\* the smallest value taken for the median
Median_min(s) == s[Len(s)]

Median(s) ==
    LET k == Len(s)
    IN  IF k % 2 = 1 THEN s[(k + 1) \div 2]
        ELSE (s[k \div 2] + s[k \div 2 + 1]) \div 2

\* the singular values counted with >= in place of >
CountAbove_geq(s, t, nan) == IF nan THEN 0 ELSE Cardinality({i \in 1..Len(s) : s[i] >= t})

\* a selected rank of 0 bumped to 1
CountAbove_bump(s, t, nan) ==
    IF nan THEN 0 ELSE Max(1, Cardinality({i \in 1..Len(s) : s[i] > t}))

\* np.sum(S > thresh) (line 67); every comparison with NaN is False
CountAbove(s, t, nan) == IF nan THEN 0 ELSE Cardinality({i \in 1..Len(s) : s[i] > t})

\* one singular value too few kept
Truncated_short(s, rk) == [i \in 1..Len(s) |-> IF i < rk THEN s[i] ELSE 0]

\* np.concatenate([S[:r], np.zeros(len(S) - r)]) (line 73), for 0 <= rk <= Len(s)
Truncated(s, rk) == [i \in 1..Len(s) |-> IF i <= rk THEN s[i] ELSE 0]

RECURSIVE Reconstructed(_, _, _, _)
\* U @ S_r @ Vt (line 76): the sum of the triads whose singular value is kept
Reconstructed(tr, sr, m, n) ==
    IF Len(tr) = 0 THEN Zero(m, n)
    ELSE LET k == Len(tr)
             rest == Reconstructed(SubSeq(tr, 1, k - 1), SubSeq(sr, 1, k - 1), m, n)
         IN  IF sr[k] = 0 THEN rest ELSE MatAdd(rest, tr[k])

RECURSIVE Accumulate(_, _, _)
\* the double loop of lines 82-85 up to entry e of Hd in row-major order:
\* entry (i, j) is added to index i + j and that index's counter incremented.
\* Entry e lies in row i at column j; the rows before i are complete, and
\* the entries 1..j of row i go to the indices i .. i + j - 1
Accumulate(Hd, len, e) ==
    IF e = 0 THEN [sum |-> [q \in 1..len |-> 0], count |-> [q \in 1..len |-> 0]]
    ELSE LET i == ((e - 1) \div Cols(Hd)) + 1
             j == ((e - 1) % Cols(Hd)) + 1
             acc == Accumulate(Hd, len, (i - 1) * Cols(Hd))
         IN  [sum |-> [q \in 1..len |->
                          IF q - i + 1 \in 1..j THEN acc.sum[q] + Hd[i][q - i + 1]
                          ELSE acc.sum[q]],
              count |-> [q \in 1..len |->
                          IF q - i + 1 \in 1..j THEN acc.count[q] + 1
                          ELSE acc.count[q]]]

\* the loop stopping one entry early
DiagonalSums_short(Hd, len) == Accumulate(Hd, len, Rows(Hd) * Cols(Hd) - 1)

DiagonalSums(Hd, len) == Accumulate(Hd, len, Rows(Hd) * Cols(Hd))

(***************************************************************************)
(* Inputs.  Every series has Hankel matrices of rank at most 2, whatever   *)
(* the window: constant series (rank <= 1), ramps (rank <= 2) and series   *)
(* of at most 4 values (at most 2 rows or 2 columns).                      *)
(***************************************************************************)
ConstSeries(len, c) == [i \in 1..len |-> c]
RampSeries(len) == [i \in 1..len |-> i]
IrregularSeries == {<<2, 0, 1>>, <<0, 1, 3, 1>>, <<-1, 2>>, <<1, 0, -2>>}
ScenarioSeries == <<1, 2, 3, 4, 5, 6, 7, 8, 9, 10>>

Series == {ConstSeries(len, c) : len \in 1..MaxLen, c \in 0..MaxConst}
          \cup {RampSeries(len) : len \in 1..MaxLen}
          \cup IrregularSeries

NoMatrix == <<>>
NoFrame == <<>>

\* data_cleaning not called
CleanIdle ==
    /\ raw_data = NoFrame /\ positive_fields = {} /\ forbidden_values = <<>>
    /\ df = NoFrame /\ ccol = 0 /\ cleaned = NoFrame

\* main not called
MainIdle ==
    /\ FrameLen = 0 /\ Order = 0 /\ csv = <<>> /\ uf = 0 /\ data = NoMatrix
    /\ col = 0 /\ interp_vals = <<>> /\ cwd_files = {} /\ dir_files = {}
    /\ log = <<>>

InitCommon ==
    /\ err = "" /\ work = {}
    /\ H = NoMatrix /\ S = <<>> /\ triad = <<>>
    /\ coef = 0 /\ topSpec = 0 /\ botSpec = 0 /\ lobnd = 0 /\ hibnd = 0 /\ change = FALSE /\ iter = 0
    /\ med = 0 /\ omega = 0 /\ thresh = 0 /\ threshNaN = FALSE /\ S_r = <<>>
    /\ H_denoised = NoMatrix /\ x_denoised = <<>> /\ outNaN = FALSE
    /\ count = <<>> /\ rankUsed = -1

Init ==
    /\ InitCommon
    /\ CleanIdle
    /\ MainIdle
    /\ \/ /\ call = "denoise" /\ pc = "start"
          /\ beta = 0
          /\ \/ /\ x \in Series
                /\ w \in -1..(Len(x) + 1)
             \/ /\ x = ScenarioSeries
                /\ w = 3
          /\ rGiven \in BOOLEAN
          /\ r \in IF rGiven THEN -1..(Max(w, 0) + 1) ELSE {0}
       \/ /\ call = "median" /\ pc = "median"
          /\ beta \in {(i * SC) \div BetaSteps : i \in 1..(BetaSteps + 1)}
          /\ x = <<>> /\ w = 0 /\ rGiven = FALSE /\ r = 0

(***************************************************************************)
(* denoise_svd (lines 35-87).                                              *)
(***************************************************************************)
\* the window validated only after the embedding has been built
CheckWindow_late ==
    /\ call = "denoise" /\ pc = "start"
    /\ IF w > Len(x)
       THEN pc' = "error" /\ err' = "InvalidWindow" /\ work' = work \cup {"hankel"}
       ELSE pc' = "hankel" /\ err' = err /\ work' = work
    /\ UNCHANGED <<cleanVars, mainVars, topSpec, botSpec, call, x, w, rGiven, r, H, S, triad, beta, coef,
                   lobnd, hibnd, change, iter, med, omega, thresh, threshNaN, S_r,
                   H_denoised, x_denoised, outNaN, count, rankUsed>>

\* lines 50-53
CheckWindow ==
    /\ call \in {"denoise", "main"} /\ pc = "start"
    /\ IF w > Len(x)
       THEN pc' = "error" /\ err' = "InvalidWindow"
       ELSE pc' = "hankel" /\ err' = err
    /\ UNCHANGED <<cleanVars, mainVars, topSpec, botSpec, call, work, x, w, rGiven, r, H, S, triad, beta, coef, lobnd,
                   hibnd, change, iter, med, omega, thresh, threshNaN, S_r, H_denoised,
                   x_denoised, outNaN, count, rankUsed>>

\* line 57: sliding_window_view rejects a negative window shape (ValueError)
BuildHankel ==
    /\ pc = "hankel"
    /\ IF w < 0
       THEN pc' = "error" /\ err' = "NegativeWindowShape" /\ H' = H /\ work' = work
       ELSE pc' = "svd" /\ err' = err /\ H' = Hankel(x, w)
            /\ work' = work \cup {"hankel"}
    /\ UNCHANGED <<cleanVars, mainVars, topSpec, botSpec, call, x, w, rGiven, r, S, triad, beta, coef, lobnd,
                   hibnd, change, iter, med, omega, thresh, threshNaN, S_r, H_denoised,
                   x_denoised, outNaN, count, rankUsed>>

\* line 60; of a matrix without columns the SVD has no triads, or the call
\* raises LinAlgError, as the installed numpy decides
ComputeSVD ==
    /\ pc = "svd"
    /\ \/ /\ S' = svd(H).S
          /\ triad' = svd(H).triad
          /\ work' = work \cup {"svd"}
          /\ pc' = "rank" /\ err' = err
       \/ /\ Cols(H) = 0
          /\ pc' = "error" /\ err' = "LinAlgError"
          /\ UNCHANGED <<S, triad, work>>
    /\ UNCHANGED <<cleanVars, mainVars, topSpec, botSpec, call, x, w, rGiven, r, H, beta, coef, lobnd,
                   hibnd, change, iter, med, omega, thresh, threshNaN, S_r, H_denoised,
                   x_denoised, outNaN, count, rankUsed>>

\* lines 63-65 and 68-70
DetermineRank ==
    /\ pc = "rank"
    /\ IF rGiven
       THEN /\ IF r <= 0 \/ r > w
               THEN pc' = "error" /\ err' = "InvalidRank"
               ELSE pc' = "truncate" /\ err' = err
            /\ beta' = beta
       ELSE /\ beta' = Quot(Min(Rows(H), Cols(H)), Max(Rows(H), Cols(H)))
            /\ pc' = "coef" /\ err' = err
    /\ UNCHANGED <<cleanVars, mainVars, topSpec, botSpec, call, work, x, w, rGiven, r, H, S, triad, coef, lobnd,
                   hibnd, change, iter, med, omega, thresh, threshNaN, S_r, H_denoised,
                   x_denoised, outNaN, count, rankUsed>>

\* lines 100-103 and 111
SvhtCoef ==
    /\ pc = "coef"
    /\ coef' = optimal_svht_coef_sigma_known(beta)
    /\ work' = work \cup {"coef"}
    /\ pc' = "median"
    /\ UNCHANGED <<cleanVars, mainVars, topSpec, botSpec, call, err, x, w, rGiven, r, H, S, triad, beta, lobnd,
                   hibnd, change, iter, med, omega, thresh, threshNaN, S_r, H_denoised,
                   x_denoised, outNaN, count, rankUsed>>

\* median_marcenko_pastur, lines 120-127
MedianEntry ==
    /\ pc = "median"
    /\ topSpec' = TopSpec(beta)
    /\ botSpec' = BotSpec(beta)
    /\ lobnd' = botSpec'
    /\ hibnd' = topSpec'
    /\ change' = TRUE
    /\ pc' = "bisect"
    /\ UNCHANGED <<cleanVars, mainVars, call, err, work, x, w, rGiven, r, H, S, triad, beta, coef,
                   iter, med, omega, thresh, threshNaN, S_r, H_denoised,
                   x_denoised, outNaN, count, rankUsed>>

\* the two bounds taken from the wrong sides of 0.5
Tighten_crossed(xs, ys) ==
    LET below == {i \in 1..GridPoints : ys[i] < SC \div 2}
        above == {i \in 1..GridPoints : ys[i] > SC \div 2}
    IN  [lobnd |-> IF above # {} THEN SeqMin(xs, above) ELSE lobnd,
         hibnd |-> IF below # {} THEN SeqMax(xs, below) ELSE hibnd,
         change |-> below # {} \/ above # {}]

\* the upper bound never tightened
Tighten_lower_only(xs, ys) ==
    LET below == {i \in 1..GridPoints : ys[i] < SC \div 2}
        above == {i \in 1..GridPoints : ys[i] > SC \div 2}
    IN  [lobnd |-> IF below # {} THEN SeqMax(xs, below) ELSE lobnd,
         hibnd |-> hibnd,
         change |-> below # {} \/ above # {}]

\* lines 132-137, given the sample points xs and the sampled values ys
Tighten(xs, ys) ==
    LET below == {i \in 1..GridPoints : ys[i] < SC \div 2}
        above == {i \in 1..GridPoints : ys[i] > SC \div 2}
    IN  [lobnd |-> IF below # {} THEN SeqMax(xs, below) ELSE lobnd,
         hibnd |-> IF above # {} THEN SeqMin(xs, above) ELSE hibnd,
         change |-> below # {} \/ above # {}]

\* one iteration of the while loop, lines 128-137; inc_mar_pas raises at
\* lines 145-146, before the integral, when beta > 1
BisectStep ==
    /\ pc = "bisect" /\ LoopCond /\ iter < MaxIters
    /\ iter' = iter + 1
    /\ IF beta > SC
       THEN /\ pc' = "error" /\ err' = "InvalidAspectRatio"
            /\ change' = FALSE
            /\ UNCHANGED <<lobnd, hibnd, work>>
       ELSE LET xs == x_vals(lobnd, hibnd)
                ys == [i \in 1..GridPoints |-> marpas(xs[i], beta, topSpec, botSpec)]
                t == Tighten(xs, ys)
            IN  /\ lobnd' = t.lobnd
                /\ hibnd' = t.hibnd
                /\ change' = t.change
                /\ work' = work \cup {"integral"}
                /\ pc' = pc /\ err' = err
    /\ UNCHANGED <<cleanVars, mainVars, topSpec, botSpec, call, x, w, rGiven, r, H, S, triad, beta, coef,
                   med, omega, thresh, threshNaN, S_r, H_denoised,
                   x_denoised, outNaN, count, rankUsed>>

\* loop exit and line 138
MedianReturn ==
    /\ pc = "bisect" /\ ~LoopCond
    /\ med' = (hibnd + lobnd) \div 2
    /\ pc' = IF call = "median" THEN "done" ELSE "select"
    /\ UNCHANGED <<cleanVars, mainVars, topSpec, botSpec, call, err, work, x, w, rGiven, r, H, S, triad, beta, coef,
                   lobnd, hibnd, change, iter, omega, thresh, threshNaN, S_r,
                   H_denoised, x_denoised, outNaN, count, rankUsed>>

\* lines 113, 66 and 67
SelectRank ==
    /\ pc = "select"
    /\ omega' = Quot(coef, Sqrt(med))
    /\ threshNaN' = (Len(S) = 0)
    /\ thresh' = IF Len(S) = 0 THEN 0 ELSE Prod(omega', Median(S))
    /\ r' = CountAbove(S, thresh', threshNaN')
    /\ work' = work \cup {"threshold"}
    /\ pc' = "truncate"
    /\ UNCHANGED <<cleanVars, mainVars, topSpec, botSpec, call, err, x, w, rGiven, H, S, triad, beta, coef,
                   lobnd, hibnd, change, iter, med, S_r,
                   H_denoised, x_denoised, outNaN, count, rankUsed>>

\* line 73: np.zeros rejects a negative length (ValueError)
Truncate ==
    /\ pc = "truncate"
    /\ IF Len(S) - r < 0
       THEN pc' = "error" /\ err' = "NegativeDimensions" /\ S_r' = S_r /\ work' = work
       ELSE pc' = "reconstruct" /\ err' = err /\ S_r' = Truncated(S, r)
            /\ work' = work \cup {"truncate"}
    /\ UNCHANGED <<cleanVars, mainVars, topSpec, botSpec, call, x, w, rGiven, r, H, S, triad, beta, coef,
                   lobnd, hibnd, change, iter, med, omega, thresh, threshNaN,
                   H_denoised, x_denoised, outNaN, count, rankUsed>>

\* line 76
Reconstruct ==
    /\ pc = "reconstruct"
    /\ H_denoised' = Reconstructed(triad, S_r, Rows(H), Cols(H))
    /\ work' = work \cup {"reconstruct"}
    /\ pc' = "average"
    /\ UNCHANGED <<cleanVars, mainVars, topSpec, botSpec, call, err, x, w, rGiven, r, H, S, triad, beta, coef,
                   lobnd, hibnd, change, iter, med, omega, thresh, threshNaN,
                   S_r, x_denoised, outNaN, count, rankUsed>>

\* lines 79-86; 0 / 0 is NaN
DiagonalAverage ==
    /\ pc = "average"
    /\ LET acc == DiagonalSums(H_denoised, Len(x))
       IN  /\ count' = acc.count
           /\ outNaN' = (\E q \in 1..Len(x) : acc.count[q] = 0)
           /\ x_denoised' = [q \in 1..Len(x) |->
                                IF acc.count[q] = 0 THEN 0
                                ELSE acc.sum[q] \div acc.count[q]]
    /\ work' = work \cup {"average"}
    /\ pc' = "return"
    /\ UNCHANGED <<cleanVars, mainVars, topSpec, botSpec, call, err, x, w, rGiven, r, H, S, triad, beta, coef,
                   lobnd, hibnd, change, iter, med, omega, thresh, threshNaN,
                   S_r, H_denoised, rankUsed>>

\* line 87
Return ==
    /\ pc = "return"
    /\ rankUsed' = r
    /\ pc' = IF call = "main" THEN "savgol" ELSE "done"
    /\ UNCHANGED <<cleanVars, mainVars, topSpec, botSpec, call, err, work, x, w, rGiven, r, H, S, triad, beta, coef,
                   lobnd, hibnd, change, iter, med, omega, thresh, threshNaN,
                   S_r, H_denoised, x_denoised, outNaN, count>>

Next ==
    \/ CheckWindow
    \/ BuildHankel
    \/ ComputeSVD
    \/ DetermineRank
    \/ SvhtCoef
    \/ MedianEntry
    \/ BisectStep
    \/ MedianReturn
    \/ SelectRank
    \/ Truncate
    \/ Reconstruct
    \/ DiagonalAverage
    \/ Return

Spec == Init /\ [][Next]_vars

\* denoise_svd not called
DenoiseIdle ==
    /\ InitCommon
    /\ x = <<>> /\ w = 0 /\ rGiven = FALSE /\ r = 0 /\ beta = 0

(***************************************************************************)
(* data_cleaning (DFENSE_DataAggregation.py, lines 39-79).  A frame is a   *)
(* sequence of columns; a numeric column holds floats, which are finite    *)
(* numbers, +Inf, -Inf or NaN.                                             *)
(***************************************************************************)
MaxRows == 2       \* rows of the frames given to data_cleaning

Num(v) == [kind |-> "num", v |-> v]
NaN == [kind |-> "nan", v |-> 0]
PosInf == [kind |-> "inf", v |-> 1]
NegInf == [kind |-> "inf", v |-> -1]

\* a float on the extended number line (not for NaN)
Huge == 1000
Ext(a) == IF a.kind = "inf" THEN a.v * Huge ELSE a.v

\* a < b and a <= b of two floats: False when either is NaN
FLess(a, b) == a.kind # "nan" /\ b.kind # "nan" /\ Ext(a) < Ext(b)
FLeq(a, b) == a.kind # "nan" /\ b.kind # "nan" /\ Ext(a) <= Ext(b)

\* Series.replace(olds, new): a new series, the receiver is left as it is
replace(vals, olds, new) ==
    [i \in 1..Len(vals) |-> IF vals[i] \in olds THEN new ELSE vals[i]]

\* Series.fillna(v)
fillna(vals, v) ==
    [i \in 1..Len(vals) |-> IF vals[i].kind = "nan" THEN v ELSE vals[i]]

\* df.loc[df[col] < 0, col] = 0.0 (line 70)
ZeroNegative(vals) ==
    [i \in 1..Len(vals) |-> IF FLess(vals[i], Num(0)) THEN Num(0) ELSE vals[i]]

\* df.loc[(df[col] >= lower) & (df[col] <= upper), col] = 0.0 (line 76)
ZeroInRange(vals, lower, upper) ==
    [i \in 1..Len(vals) |->
        IF FLeq(Num(lower), vals[i]) /\ FLeq(vals[i], Num(upper)) THEN Num(0)
        ELSE vals[i]]

RECURSIVE ApplyRanges(_, _)
\* the loop of lines 73-78 over the ranges rngs: the column after it, or the
\* ValueError of line 78 at the first entry that is not a pair
ApplyRanges(vals, rngs) ==
    IF Len(rngs) = 0 THEN [ok |-> TRUE, vals |-> vals]
    ELSE IF Len(Head(rngs)) # 2 THEN [ok |-> FALSE, vals |-> vals]
    ELSE ApplyRanges(ZeroInRange(vals, Head(rngs)[1], Head(rngs)[2]), Tail(rngs))

CellValues == {NaN, PosInf, NegInf, Num(-1), Num(0), Num(2), Num(5)}
ForbiddenChoices == {<<>>, <<<<4, 6>>>>, <<<<4, 6>>, <<7>>>>}

\* a frame with a positive field, another numeric field holding the same
\* values, and a field of text
FrameOf(cells) ==
    <<[name |-> "casos", numeric |-> TRUE, vals |-> cells],
      [name |-> "temp_min", numeric |-> TRUE, vals |-> cells],
      [name |-> "uf", numeric |-> FALSE, vals |-> [i \in 1..Len(cells) |-> "AC"]]>>

CleanInit ==
    /\ DenoiseIdle
    /\ MainIdle
    /\ call = "clean" /\ pc = "copy"
    /\ \E cells \in [1..MaxRows -> CellValues] : raw_data = FrameOf(cells)
    /\ positive_fields = {"casos"}
    /\ forbidden_values \in ForbiddenChoices
    /\ df = NoFrame /\ ccol = 0 /\ cleaned = NoFrame

\* lines 52-57: df = raw_data.copy()
CopyFrame ==
    /\ call = "clean" /\ pc = "copy"
    /\ df' = raw_data
    /\ ccol' = 1
    /\ pc' = "column"
    /\ UNCHANGED <<call, err, denoiseVars, mainVars, raw_data, positive_fields,
                   forbidden_values, cleaned>>

\* one iteration of the loop of line 59 (lines 61-78)
CleanColumn ==
    /\ call = "clean" /\ pc = "column" /\ ccol <= Len(df)
    /\ LET c == df[ccol]
           \* line 63: the series with Inf replaced is built and dropped
           dropped == replace(c.vals, {PosInf, NegInf}, NaN)
           \* line 64
           filled == fillna(c.vals, Num(0))
           \* lines 69-70
           positive == IF c.name \in positive_fields THEN ZeroNegative(filled)
                       ELSE filled
           \* lines 73-78
           ranged == ApplyRanges(positive, forbidden_values)
       IN  IF ~c.numeric
           THEN df' = df /\ ccol' = ccol + 1 /\ pc' = pc /\ err' = err
           ELSE IF ranged.ok
           THEN /\ df' = [df EXCEPT ![ccol].vals = ranged.vals]
                /\ ccol' = ccol + 1 /\ pc' = pc /\ err' = err
           ELSE /\ pc' = "error" /\ err' = "InvalidForbiddenRange"
                /\ UNCHANGED <<df, ccol>>
    /\ UNCHANGED <<call, denoiseVars, mainVars, raw_data, positive_fields,
                   forbidden_values, cleaned>>

\* line 79
CleanReturn ==
    /\ call = "clean" /\ pc = "column" /\ ccol > Len(df)
    /\ cleaned' = df
    /\ pc' = "done"
    /\ UNCHANGED <<call, err, denoiseVars, mainVars, raw_data, positive_fields,
                   forbidden_values, df, ccol>>

CleanNext ==
    \/ CopyFrame
    \/ CleanColumn
    \/ CleanReturn

CleanSpec == CleanInit /\ [][CleanNext]_vars

(***************************************************************************)
(* main (DFENSE_DataFilteringSmoothing.py, lines 246-388): for each state, *)
(* every data column is denoised and filtered, then resampled through a    *)
(* cubic spline, the cases are rounded, negative values set to zero, and   *)
(* the result saved.  data is a sequence of columns of scaled values; its  *)
(* column 1 is epiweek (column 0 of the array), column 2 the cases.        *)
(***************************************************************************)
Window == 52
OrderValue == 3
FrameLenValue == 11

NumRegions == 2    \* states in federative_units
NumFields == 2     \* data columns of the aggregated files

\* a / d rounded towards zero
SDiv(a, d) == IF a < 0 THEN -((-a) \div d) ELSE a \div d

Unscaled(xs) == [i \in 1..Len(xs) |-> xs[i] \div SC]

(***************************************************************************)
(* scipy.signal.savgol_filter(x, window_length, polyorder), mode 'interp'. *)
(* Row i of the table, over den, gives the value at position i of the      *)
(* least-squares polynomial of the order fitted to window_length samples;  *)
(* centre gives the coefficients of the convolution.  The first and last   *)
(* window_length // 2 outputs come from the polynomial fitted to the first *)
(* and last window, the others from the convolution.                       *)
(***************************************************************************)
SavGolTable(W, p) ==
    CASE W = 1 /\ p = 0 -> [den |-> 1, rows |-> <<<<1>>>>, centre |-> <<1>>]
      [] W = 2 /\ p = 0 -> [den |-> 2, rows |-> <<<<1, 1>>, <<1, 1>>>>,
                            centre |-> <<1, 1>>]
      [] W = 2 /\ p = 1 -> [den |-> 2, rows |-> <<<<2, 0>>, <<0, 2>>>>,
                            centre |-> <<1, 1>>]
      [] W = 3 /\ p = 0 -> [den |-> 3,
                            rows |-> <<<<1, 1, 1>>, <<1, 1, 1>>, <<1, 1, 1>>>>,
                            centre |-> <<1, 1, 1>>]
      [] W = 3 /\ p = 1 -> [den |-> 6,
                            rows |-> <<<<5, 2, -1>>, <<2, 2, 2>>, <<-1, 2, 5>>>>,
                            centre |-> <<2, 2, 2>>]
      [] W = 3 /\ p = 2 -> [den |-> 1,
                            rows |-> <<<<1, 0, 0>>, <<0, 1, 0>>, <<0, 0, 1>>>>,
                            centre |-> <<0, 1, 0>>]
      [] W = 11 /\ p = 3 ->
           [den |-> 858,
            rows |-> <<
              <<678, 288, 48, -72, -102, -72, -12, 48, 78, 48, -72>>,
              <<288, 246, 192, 132, 72, 18, -24, -48, -48, -18, 48>>,
              <<48, 192, 246, 232, 172, 88, 2, -64, -88, -48, 78>>,
              <<-72, 132, 232, 251, 212, 138, 52, -23, -64, -48, 48>>,
              <<-102, 72, 172, 212, 206, 168, 112, 52, 2, -24, -12>>,
              <<-72, 18, 88, 138, 168, 178, 168, 138, 88, 18, -72>>,
              <<-12, -24, 2, 52, 112, 168, 206, 212, 172, 72, -102>>,
              <<48, -48, -64, -23, 52, 138, 212, 251, 232, 132, -72>>,
              <<78, -48, -88, -64, 2, 88, 172, 232, 246, 192, 48>>,
              <<48, -18, -48, -48, -24, 18, 72, 132, 192, 246, 288>>,
              <<-72, 48, 78, 48, -12, -72, -102, -72, 48, 288, 678>> >>,
            centre |-> <<-72, 18, 88, 138, 168, 178, 168, 138, 88, 18, -72>>]

savgol_filter(xs, W, p) ==
    LET n == Len(xs)
        half == W \div 2
        t == SavGolTable(W, p)
        Dot(cf, start) == SumTo([j \in 1..W |-> cf[j] * xs[start + j - 1]], W)
    IN  [i \in 1..n |->
            SDiv(IF i <= half THEN Dot(t.rows[i], 1)
                 ELSE IF i > n - half THEN Dot(t.rows[W - (n - i)], n - W + 1)
                 ELSE Dot(t.centre, i - half + (1 - (W % 2))),
                 t.den)]

(***************************************************************************)
(* The spline pass (lines 291-297).  Times are counted in half steps, so   *)
(* that the step 0.5 of line 292 is 1 and the step 1 of line 291 is 2.     *)
(***************************************************************************)
HalfSteps == 2

\* np.arange with the stop value included
arange_inclusive(start, stop, step) ==
    [k \in 1..((stop - start) \div step + 1) |-> start + (k - 1) * step]

\* np.arange(start, stop, step): ceil((stop - start) / step) values
arange(start, stop, step) ==
    [k \in 1..((stop - start + step - 1) \div step) |-> start + (k - 1) * step]

\* CubicSpline(time1, vals)(t): the value of vals at a knot; between two
\* knots, and beyond the last one, the value on the chord stands for the
\* value of the cubic (line 297 drops these values)
SplineAt(vals, t) ==
    LET k == t \div HalfSteps
        n == Len(vals)
    IN  IF t % HalfSteps = 0 THEN vals[k]
        ELSE IF k < n THEN SDiv(vals[k] + vals[k + 1], 2)
        ELSE vals[n] + SDiv(vals[n] - vals[n - 1], 2)

\* s[::3]
EverySecond_third(s) == [k \in 1..((Len(s) + 2) \div 3) |-> s[3 * k - 2]]

\* s[::2]
EverySecond(s) == [k \in 1..((Len(s) + 1) \div 2) |-> s[2 * k - 1]]

\* a scaled value rounded to one decimal
Round_tenths(v) ==
    LET unit == SC \div 10
        q == v \div unit
        rem == v % unit
    IN  IF 2 * rem < unit THEN q * unit ELSE (q + 1) * unit

\* np.round of a scaled value: to the nearest integer, a tie to the even one
Round(v) ==
    LET q == v \div SC
        rem == v % SC
    IN  IF 2 * rem < SC THEN q * SC
        ELSE IF 2 * rem > SC THEN (q + 1) * SC
        ELSE IF q % 2 = 0 THEN q * SC ELSE (q + 1) * SC

\* data[data < 0] = 0.0 on one column
Clipped(vals) == [i \in 1..Len(vals) |-> IF vals[i] < 0 THEN 0 ELSE vals[i]]

(***************************************************************************)
(* Inputs of main: the aggregated file of a state has Window - 1, Window   *)
(* or Window + 1 weeks; its fields are constant or alternate in sign (the  *)
(* Hankel matrices of such series have rank 1).  Inputs of the smoothing   *)
(* step alone: a series and a filter configuration.                        *)
(***************************************************************************)
EpiWeeks(n) == [i \in 1..n |-> (202000 + i) * SC]

FieldValue(kind, f, i) ==
    IF kind = "flat" THEN (IF f = 1 THEN 3 ELSE 1 - f)
    ELSE IF (i + f) % 2 = 0 THEN 4 ELSE -4

RegionData(n, kind) ==
    <<EpiWeeks(n)>> \o [f \in 1..NumFields |-> [i \in 1..n |-> FieldValue(kind, f, i) * SC]]

RegionInputs ==
    {RegionData(Window - 1, "flat"), RegionData(Window, "flat"),
     RegionData(Window + 1, "flat"), RegionData(Window + 1, "alt")}

SmoothConfigs == {1, 2, 3} \X {0, 1, 2, 3}

MainInit ==
    /\ CleanIdle
    /\ err = "" /\ work = {}
    /\ x = <<>> /\ w = 0 /\ rGiven = FALSE /\ r = 0 /\ beta = 0
    /\ H = NoMatrix /\ S = <<>> /\ triad = <<>>
    /\ coef = 0 /\ topSpec = 0 /\ botSpec = 0 /\ lobnd = 0 /\ hibnd = 0
    /\ change = FALSE /\ iter = 0
    /\ med = 0 /\ omega = 0 /\ thresh = 0 /\ threshNaN = FALSE /\ S_r = <<>>
    /\ H_denoised = NoMatrix /\ outNaN = FALSE /\ count = <<>> /\ rankUsed = -1
    /\ interp_vals = <<>> /\ cwd_files = {} /\ dir_files = {} /\ log = <<>>
    /\ uf = 0
    /\ \/ /\ call = "main" /\ pc = "region"
          /\ FrameLen = FrameLenValue /\ Order = OrderValue
          /\ csv \in [1..NumRegions -> RegionInputs]
          /\ data = NoMatrix /\ col = 0 /\ x_denoised = <<>>
       \/ /\ call = "smooth" /\ pc = "savgol"
          /\ \E cfg \in SmoothConfigs : FrameLen = cfg[1] /\ Order = cfg[2]
          /\ csv = <<>>
          /\ \E xs \in Series :
                /\ x_denoised = [i \in 1..Len(xs) |-> xs[i] * SC]
                /\ data = <<EpiWeeks(Len(xs)), x_denoised>>
          /\ col = 2

\* lines 269-281: the next state's file is read
LoadRegion ==
    /\ call = "main" /\ pc = "region" /\ uf < Len(csv)
    /\ uf' = uf + 1
    /\ log' = Append(log, <<"Processing data for", uf'>>)
    /\ data' = csv[uf']
    /\ col' = 2
    /\ pc' = "call"
    /\ UNCHANGED <<call, err, denoiseVars, cleanVars, FrameLen, Order, csv,
                   interp_vals, cwd_files, dir_files>>

\* line 285: denoise_svd(data[:, col], Window) is called
CallDenoise ==
    /\ call = "main" /\ pc = "call"
    /\ x' = Unscaled(data[col]) /\ w' = Window /\ rGiven' = FALSE /\ r' = 0
    /\ work' = {} /\ beta' = 0
    /\ H' = NoMatrix /\ S' = <<>> /\ triad' = <<>>
    /\ coef' = 0 /\ topSpec' = 0 /\ botSpec' = 0 /\ lobnd' = 0 /\ hibnd' = 0
    /\ change' = FALSE /\ iter' = 0
    /\ med' = 0 /\ omega' = 0 /\ thresh' = 0 /\ threshNaN' = FALSE /\ S_r' = <<>>
    /\ H_denoised' = NoMatrix /\ x_denoised' = <<>> /\ outNaN' = FALSE
    /\ count' = <<>> /\ rankUsed' = -1
    /\ pc' = "start"
    /\ UNCHANGED <<call, err, cleanVars, mainVars>>

\* lines 287-288: savgol_filter raises ValueError when polyorder >=
\* window_length and when window_length exceeds the series; an even
\* window_length is rejected or accepted, as the installed scipy decides
SavGol ==
    /\ call \in {"main", "smooth"} /\ pc = "savgol"
    /\ LET rejected == Order >= FrameLen \/ FrameLen > Len(x_denoised)
       IN  \/ /\ rejected \/ FrameLen % 2 = 0
              /\ pc' = "error" /\ err' = "InvalidSmoothingConfig"
              /\ UNCHANGED <<data, col>>
           \/ /\ ~rejected
              /\ data' = [data EXCEPT ![col] = savgol_filter(x_denoised, FrameLen, Order)]
              /\ err' = err
              /\ IF col < Len(data)
                 THEN col' = col + 1 /\ pc' = "call"
                 ELSE col' = 2 /\ pc' = "spline"
    /\ UNCHANGED <<call, denoiseVars, cleanVars, FrameLen, Order, csv, uf,
                   interp_vals, cwd_files, dir_files, log>>

\* lines 291-297 for one column: CubicSpline raises ValueError for fewer
\* than 2 points, the assignment of line 297 for a series of another length
Spline ==
    /\ call \in {"main", "smooth"} /\ pc = "spline"
    /\ LET Nepiweeks == Len(data[1])
           time1 == arange(HalfSteps, HalfSteps * (Nepiweeks + 1), HalfSteps)
           time2 == arange(HalfSteps, HalfSteps * (Nepiweeks + 1), 1)
           vals == [k \in 1..Len(time2) |-> SplineAt(data[col], time2[k])]
       IN  IF Len(time1) < 2
           THEN /\ pc' = "error" /\ err' = "SplineTooFewPoints"
                /\ UNCHANGED <<data, col, interp_vals>>
           ELSE IF Len(EverySecond(vals)) # Nepiweeks
           THEN /\ pc' = "error" /\ err' = "ShapeMismatch"
                /\ interp_vals' = vals
                /\ UNCHANGED <<data, col>>
           ELSE /\ interp_vals' = vals
                /\ data' = [data EXCEPT ![col] = EverySecond(vals)]
                /\ err' = err
                /\ IF col < Len(data)
                   THEN col' = col + 1 /\ pc' = pc
                   ELSE col' = col /\ pc' = IF call = "smooth" THEN "done" ELSE "round"
    /\ UNCHANGED <<call, denoiseVars, cleanVars, FrameLen, Order, csv, uf,
                   cwd_files, dir_files, log>>

\* line 300
RoundCases ==
    /\ call = "main" /\ pc = "round"
    /\ data' = [data EXCEPT ![2] = [i \in 1..Len(@) |-> Round(@[i])]]
    /\ pc' = "clip"
    /\ UNCHANGED <<call, err, denoiseVars, cleanVars, FrameLen, Order, csv, uf,
                   col, interp_vals, cwd_files, dir_files, log>>

\* line 302
ClipNegative ==
    /\ call = "main" /\ pc = "clip"
    /\ data' = [c \in 1..Len(data) |-> Clipped(data[c])]
    /\ pc' = "save"
    /\ UNCHANGED <<call, err, denoiseVars, cleanVars, FrameLen, Order, csv, uf,
                   col, interp_vals, cwd_files, dir_files, log>>

\* lines 304-375: the figures and the processed file of the state are
\* written to the working directory
SaveRegion ==
    /\ call = "main" /\ pc = "save"
    /\ cwd_files' = cwd_files \cup {[kind |-> "figures", uf |-> uf, data |-> NoMatrix],
                                    [kind |-> "csv", uf |-> uf, data |-> data]}
    /\ log' = Append(log, <<"Data saved to", uf>>)
    /\ pc' = IF uf < Len(csv) THEN "region" ELSE "move"
    /\ UNCHANGED <<call, err, denoiseVars, cleanVars, FrameLen, Order, csv, uf,
                   data, col, interp_vals, dir_files>>

\* lines 377-388
MoveFiles ==
    /\ call = "main" /\ pc = "move"
    /\ dir_files' = dir_files \cup cwd_files
    /\ cwd_files' = {}
    /\ pc' = "done"
    /\ UNCHANGED <<call, err, denoiseVars, cleanVars, FrameLen, Order, csv, uf,
                   data, col, interp_vals, log>>

MainNext ==
    \/ LoadRegion
    \/ CallDenoise
    \/ CheckWindow
    \/ BuildHankel
    \/ ComputeSVD
    \/ DetermineRank
    \/ SvhtCoef
    \/ MedianEntry
    \/ BisectStep
    \/ MedianReturn
    \/ SelectRank
    \/ Truncate
    \/ Reconstruct
    \/ DiagonalAverage
    \/ Return
    \/ SavGol
    \/ Spline
    \/ RoundCases
    \/ ClipNegative
    \/ SaveRegion
    \/ MoveFiles

MainSpec == MainInit /\ [][MainNext]_vars

(***************************************************************************)
(* Properties.                                                             *)
(***************************************************************************)
N == Len(x)
ValidWindow == call = "denoise" /\ 1 <= w /\ w <= N
Ended == pc \in {"done", "error"}

\* C1: once the window check of a denoise call has run, the call has failed
\* with InvalidWindow, with no Hankel embedding built, exactly when w > N or
\* w < 1.
C1_InvalidWindow ==
    (call = "denoise" /\ pc # "start") =>
        /\ (w > N \/ w < 1) <=> (err = "InvalidWindow")
        /\ err = "InvalidWindow" => "hankel" \notin work

\* C2: with a valid window and a supplied rank, a finished call has failed
\* with InvalidRank iff r < 1 or r > w, and otherwise has returned the
\* supplied r as rankUsed.
C2_InvalidRank ==
    (ValidWindow /\ rGiven /\ Ended) =>
        IF r < 1 \/ r > w THEN err = "InvalidRank"
        ELSE pc = "done" /\ rankUsed = r

\* C3: whenever one of the three failures of the core has been raised, no
\* numerical step of the call has been executed.
C3_NoWorkBeforeFailure ==
    err \in {"InvalidWindow", "InvalidRank", "InvalidAspectRatio"} => work = {}

\* C3 (amended): InvalidWindow is raised before any numerical step;
\* InvalidRank is raised when exactly the Hankel embedding and the SVD have
\* been executed; InvalidAspectRatio is raised before any integral is
\* evaluated.
C3_FailureOrder ==
    /\ err = "InvalidWindow" => work = {}
    /\ err = "InvalidRank" => work = {"hankel", "svd"}
    /\ err = "InvalidAspectRatio" => "integral" \notin work

C3_Witness == err = "InvalidRank" /\ ValidWindow /\ "svd" \in work

\* C4: with a valid window and a supplied rank 1 <= r <= w, truncation
\* raises nothing: the singular values from index r on are zeroed, the first
\* r kept, and the call returns.
C4_TruncationTotal ==
    (ValidWindow /\ rGiven /\ 1 <= r /\ r <= w) =>
        /\ err = ""
        /\ pc \in {"reconstruct", "average", "return", "done"} =>
               /\ Len(S_r) = Len(S)
               /\ \A i \in 1..Len(S) : S_r[i] = IF i <= r THEN S[i] ELSE 0

\* the sum of the entries (i, j) of Hd with i + j - 1 = q
AntiDiagonal(Hd, q) ==
    SumTo([i \in 1..Rows(Hd) |->
              IF q - i + 1 \in 1..Cols(Hd) THEN Hd[i][q - i + 1] ELSE 0], Rows(Hd))

\* C5: after the diagonal averaging of a call with a valid window the
\* matrix has shape (N-w+1, w), the output and the counters have N entries,
\* output q is the sum of anti-diagonal q divided by its counter, and the
\* counter of (0-based) index k is min(k+1, w, N-k, N-w+1) >= 1; for N = 10
\* and w = 3 it is 1 at positions 0 and 9 and 3 at positions 2..7.
C5_Counters ==
    (ValidWindow /\ pc \in {"return", "done"}) =>
        /\ Rows(H_denoised) = N - w + 1 /\ Cols(H_denoised) = w
        /\ Len(x_denoised) = N /\ Len(count) = N
        /\ \A q \in 1..N :
               /\ count[q] >= 1
               /\ count[q] = Min(Min(q, w), Min(N - q + 1, N - w + 1))
               /\ x_denoised[q] = AntiDiagonal(H_denoised, q) \div count[q]
        /\ (N = 10 /\ w = 3) =>
               /\ count[1] = 1 /\ count[10] = 1
               /\ \A q \in 3..8 : count[q] = 3

C5_Witness == pc = "done" /\ x = ScenarioSeries /\ w = 3 /\ count[3] = 3

NumValues == Min(N - w + 1, w)
Scaled(xs) == [q \in 1..Len(xs) |-> xs[q] * SC]
Zeros(len) == [q \in 1..len |-> 0]
IsConstant(xs) == \A q \in 1..Len(xs) : xs[q] = xs[1]
AfterSelect == pc \in {"truncate", "reconstruct", "average", "return", "done"}

\* C6: a call with a valid window and the supplied rank min(N-w+1, w) ends
\* by returning; it keeps every singular value, its reconstructed matrix is
\* the Hankel embedding and its output is the input series.
C6_FullRankIdentity ==
    (ValidWindow /\ rGiven /\ r = NumValues) =>
        /\ err = ""
        /\ pc = "done" =>
               /\ S_r = S
               /\ H_denoised = ScaleUp(H)
               /\ x_denoised = Scaled(x)
               /\ rankUsed = r

C6_Witness ==
    /\ ValidWindow /\ rGiven /\ r = NumValues /\ pc = "done"
    /\ r = 2 /\ S[2] > 0 /\ x_denoised = Scaled(x)

\* C7: a call with a valid window and no supplied rank raises nothing; when
\* no singular value exceeds the threshold the selected rank is 0 (not 1),
\* and the call returns N zeros and rankUsed = 0.
C7_RankZero ==
    (ValidWindow /\ ~rGiven) =>
        /\ err = ""
        /\ (AfterSelect /\ \A i \in 1..Len(S) : ~(S[i] > thresh)) =>
               /\ r = 0
               /\ pc = "done" =>
                      /\ rankUsed = 0 /\ ~outNaN
                      /\ x_denoised = Zeros(N)

C7_Witness ==
    /\ ValidWindow /\ ~rGiven /\ pc = "done" /\ rankUsed = 0
    /\ S[1] > 0 /\ x_denoised = Zeros(N)

\* C8: for a constant series, a valid window and no supplied rank, the
\* selected rank is >= 1 and the output equals the input.
C8_ConstantRecovered ==
    (ValidWindow /\ ~rGiven /\ IsConstant(x) /\ pc = "done") =>
        /\ r >= 1
        /\ x_denoised = Scaled(x)

\* C8 (amended): for a constant series, a valid window and no supplied
\* rank: when the constant is not 0 and there are at least 3 singular values
\* the selected rank is >= 1 and the output equals the input; when there is
\* one singular value the selected rank is 0 and the output is all zeros.
C8_ConstantByValues ==
    (ValidWindow /\ ~rGiven /\ IsConstant(x) /\ pc = "done") =>
        /\ (NumValues >= 3 /\ x[1] # 0) => (r >= 1 /\ x_denoised = Scaled(x))
        /\ NumValues = 1 => (r = 0 /\ x_denoised = Zeros(N))

C8_Witness ==
    /\ ValidWindow /\ ~rGiven /\ IsConstant(x) /\ pc = "done"
    /\ NumValues >= 3 /\ x[1] # 0 /\ r = 1 /\ x_denoised = Scaled(x)

Deviation(q) == Abs(x_denoised[q] - x[q] * SC)
ScenarioDone == x = ScenarioSeries /\ w = 3 /\ ~rGiven /\ pc = "done"

\* C9: for the series 1..10 with window 3 and no supplied rank the output
\* deviates from the input by less than 1e-6 at every index.
C9_RampTracked ==
    ScenarioDone => \A q \in 1..N : Deviation(q) <= SC \div 1000000

\* C9 (amended): for the series 1..10 with window 3 and no supplied rank
\* the threshold lies above the second singular value, the selected rank is
\* 1, and the output deviates from the input by more than 0.5 at the first
\* index and by less than 1 at every index.
C9_RampRankOne ==
    ScenarioDone =>
        /\ S[2] > 0 /\ S[3] = 0
        /\ thresh > S[2] /\ thresh < S[1]
        /\ r = 1 /\ rankUsed = 1
        /\ Deviation(1) > SC \div 2
        /\ \A q \in 1..N : Deviation(q) < SC

C9_Witness == ScenarioDone /\ rankUsed = 1 /\ Deviation(1) > SC \div 2

RECURSIVE Halvings(_)
\* the number of halvings that bring a width down to the tolerance
Halvings(wd) ==
    IF wd <= (TolMilli * SC) \div 1000 THEN 0 ELSE 1 + Halvings((wd + 1) \div 2)

\* the widest support is [0, 4], that of beta = 1
IterationBound == Halvings(4 * SC)

\* C10: the while loop of median_marcenko_pastur runs at most as many
\* iterations as halvings bring the widest support down to the tolerance.
C10_BisectionBounded ==
    /\ iter <= IterationBound
    /\ IterationBound < MaxIters

\* the next iteration samples a point where F is exactly 0.5
SamplesHalf ==
    \E i \in 1..GridPoints :
        marpas(x_vals(lobnd, hibnd)[i], beta, topSpec, botSpec) = SC \div 2

C10_Witness ==
    /\ call = "median" /\ pc = "bisect" /\ beta <= SC
    /\ iter >= 1 /\ LoopCond /\ SamplesHalf

Tolerance == (TolMilli * SC) \div 1000

\* C11: after every iteration of the solver's loop another iteration follows
\* exactly when hi - lo > 0.001 and the iteration moved a bound (so that an
\* iteration leaving both bounds unchanged is the last one), and when the
\* loop has stopped the solver returns the midpoint (lo + hi) / 2.
C11_StopRule ==
    [][ /\ (pc = "bisect" /\ pc' = "bisect") =>
              (LoopCond' <=> ~(\/ hibnd' - lobnd' <= Tolerance
                               \/ (lobnd' = lobnd /\ hibnd' = hibnd)))
        /\ (pc = "bisect" /\ pc' \in {"done", "select"}) =>
              med' = (lobnd + hibnd) \div 2 ]_vars

C11_Witness ==
    /\ call = "median" /\ pc = "done" /\ iter >= 2
    /\ hibnd - lobnd <= Tolerance /\ hibnd > lobnd
    /\ med = (lobnd + hibnd) \div 2

CoefComputed == call = "denoise" /\ ~rGiven /\ "coef" \in work

\* C12: the known-noise coefficient computed at beta = 1 equals 2.8582 to
\* four decimals.
C12_KnownCoefReference ==
    (CoefComputed /\ beta = SC) => Abs(coef - 28582) <= 1

\* C12 (amended): the known-noise coefficient computed at beta = 1 equals
\* 4 / sqrt(3) = 2.3094 to four decimals.
C12_KnownCoefValue ==
    (CoefComputed /\ beta = SC) => Abs(coef - 23094) <= 1

C12_Witness == CoefComputed /\ beta = SC /\ pc = "done" /\ coef > 2 * SC

\* the values of F sampled by the next iteration
Sampled ==
    LET xs == x_vals(lobnd, hibnd)
    IN  [i \in 1..GridPoints |-> marpas(xs[i], beta, topSpec, botSpec)]

NonDecreasing(ys) == \A i \in 1..(Len(ys) - 1) : ys[i] <= ys[i + 1]

\* C18: the solver starts from lo = botSpec and hi = topSpec; an iteration
\* whose 5 sampled values of F are non-decreasing sets lo to the largest
\* sample point with F < 0.5 and hi to the smallest with F > 0.5, and leaves
\* botSpec <= lo <= hi <= topSpec with lo not decreased and hi not
\* increased; the returned median lies in [botSpec, topSpec].
C18_BoundsOrdered ==
    [][ /\ (pc = "median" /\ pc' = "bisect") =>
              (lobnd' = botSpec' /\ hibnd' = topSpec' /\ lobnd' <= hibnd')
        /\ (pc = "bisect" /\ pc' = "bisect" /\ NonDecreasing(Sampled)) =>
              LET xs == x_vals(lobnd, hibnd)
                  below == {i \in 1..GridPoints : Sampled[i] < SC \div 2}
                  above == {i \in 1..GridPoints : Sampled[i] > SC \div 2}
              IN  /\ below # {} => lobnd' = SeqMax(xs, below)
                  /\ above # {} => hibnd' = SeqMin(xs, above)
                  /\ botSpec <= lobnd /\ lobnd <= lobnd'
                  /\ lobnd' <= hibnd'
                  /\ hibnd' <= hibnd /\ hibnd <= topSpec
        /\ (pc = "bisect" /\ pc' \in {"done", "select"}) =>
              (botSpec <= med' /\ med' <= topSpec) ]_vars

C18_Witness ==
    /\ pc = "bisect" /\ iter >= 2 /\ LoopCond /\ NonDecreasing(Sampled)
    /\ botSpec < lobnd /\ lobnd < hibnd /\ hibnd < topSpec

\* C19: when the rank is selected automatically with a valid window, the
\* coefficient is > 1 and the selected rank is at most floor(k / 2), k =
\* min(N-w+1, w) the number of singular values; when k = 1 the selected rank
\* is 0 and the returned series is all zeros.
C19_RankAtMostHalf ==
    (ValidWindow /\ ~rGiven /\ AfterSelect) =>
        /\ omega > SC
        /\ Len(S) = NumValues
        /\ r <= NumValues \div 2
        /\ NumValues = 1 =>
               /\ r = 0
               /\ pc = "done" => (rankUsed = 0 /\ x_denoised = Zeros(N))

C19_Witness ==
    /\ ValidWindow /\ ~rGiven /\ pc = "done"
    /\ NumValues >= 2 /\ r >= 1 /\ r = NumValues \div 2

NonFinite(a) == a.kind \in {"nan", "inf"}

\* the entry of the numeric column c of the returned frame at row i is 0
\* when the claim says so
EntryCleaned(c, i) ==
    LET raw == raw_data[c].vals[i]
        ret == cleaned[c].vals[i]
    IN  /\ NonFinite(raw) => ret = Num(0)
        /\ (raw_data[c].name \in positive_fields /\ FLess(raw, Num(0))) => ret = Num(0)
        /\ \A q \in 1..Len(forbidden_values) :
               (FLeq(Num(forbidden_values[q][1]), raw)
                   /\ FLeq(raw, Num(forbidden_values[q][2]))) => ret = Num(0)

\* C17: data_cleaning never modifies the frame it is given, and in the
\* frame it returns every entry of a numeric column that was +Inf, -Inf or
\* NaN, or negative in a positive field, or inside a forbidden range, is 0.
C17_NonFiniteCleaned ==
    [][ /\ raw_data' = raw_data
        /\ (call = "clean" /\ pc' = "done") =>
               \A c \in 1..Len(raw_data) : raw_data[c].numeric =>
                   \A i \in 1..Len(raw_data[c].vals) : EntryCleaned(c, i)' ]_vars

\* the length of the series given to the smoothing step
SmoothLen == Len(x_denoised)
ValidSmoothing ==
    FrameLen % 2 = 1 /\ FrameLen <= SmoothLen /\ Order < FrameLen

\* C13: the smoothing step on a series of N >= 2 values with an odd window
\* <= N and an order below the window raises nothing; the spline is
\* evaluated at 2N points and every second one kept, so that the series
\* written back has exactly N values.  In main every column of a state has
\* as many values after the spline pass as the file had weeks.
C13_LengthKept ==
    /\ (call = "smooth" /\ SmoothLen >= 2 /\ ValidSmoothing) =>
           /\ err = ""
           /\ pc = "done" =>
                  /\ Len(interp_vals) = 2 * SmoothLen
                  /\ Len(data[2]) = SmoothLen
    /\ (call = "main" /\ pc \in {"round", "clip", "save"}) =>
           /\ Len(interp_vals) = 2 * Len(csv[uf][1])
           /\ \A c \in 1..Len(data) : Len(data[c]) = Len(csv[uf][1])

C13_Witness ==
    /\ call = "smooth" /\ pc = "done" /\ SmoothLen = 2 /\ FrameLen = 1
    /\ Len(interp_vals) = 4 /\ Len(data[2]) = 2 /\ data[2][1] # data[2][2]

IsWhole(v) == v % SC = 0
Processed(d) ==
    /\ \A c \in 1..Len(d) : \A i \in 1..Len(d[c]) : d[c][i] >= 0
    /\ \A i \in 1..Len(d[2]) : IsWhole(d[2][i])

\* C15: when the negative values are set to zero the cases are already
\* whole numbers; after it, and in every file written, every value of
\* every column is >= 0 and every value of the cases column is a whole
\* number; post-processing raises nothing and prints nothing (the lines
\* printed are one when a state is started and one when it is saved).
C15_PostProcessed ==
    /\ (call = "main" /\ pc = "clip") =>
           (err = "" /\ \A i \in 1..Len(data[2]) : IsWhole(data[2][i]))
    /\ (call = "main" /\ pc = "save") =>
           (err = "" /\ Processed(data) /\ Len(log) = 2 * uf - 1)
    /\ \A f \in cwd_files \cup dir_files : f.kind = "csv" => Processed(f.data)

C15_Witness ==
    /\ call = "main" /\ pc = "save"
    /\ \E i \in 1..Len(data[1]) :
           interp_vals[2 * i - 1] < 0 /\ data[Len(data)][i] = 0
    /\ \E i \in 1..Len(data[1]) : data[2][i] = SC /\ csv[uf][2][i] # SC

\* C16: when main has ended, by returning or by an error, every state
\* whose file has at least Window weeks has its processed file written.
C16_FailureIsolated ==
    (call = "main" /\ pc \in {"done", "error"}) =>
        \A u \in 1..Len(csv) :
            Len(csv[u][1]) >= Window =>
                \E f \in cwd_files \cup dir_files : f.kind = "csv" /\ f.uf = u

====
